---- MODULE Spec2Model ----
(***************************************************************************)
(* A model of streamlit_app.py: the popular-videos dashboard.  One render  *)
(* cycle of the script is a walk of pc through its stages; the two cached  *)
(* queries, the formatters, the filter and the per-item display step are   *)
(* operators translated from the source.                                   *)
(*                                                                         *)
(* Encoding of Python values.  Every value the code receives from outside  *)
(* (a JSON document or a part of one) is a record tagged by its type in    *)
(* field t:                                                                *)
(*   None   PyNone                                                         *)
(*   str    PyStr(s), s a sequence of one-character strings                *)
(*   int    PyInt(n)                                                       *)
(*   list   PyList(l), l a sequence of values                              *)
(*   dict   PyDict(p), p the sequence of its <<key, value>> pairs in       *)
(*          insertion order, keys distinct; a key is a TLA+ string of      *)
(*          letters, digits and underscores                                *)
(* bool and float are not encoded.  A character is a printable ASCII       *)
(* character other than the grave accent, or one of tab, line feed, form   *)
(* feed and carriage return.  A str that is the text of a timestamp is     *)
(* IsoTime(e) or BadIsoTime and is read by format_relative_time_korean     *)
(* only (see there).  The mapping fetch_categories builds is a TLA+        *)
(* function from values to values; the dict fetch_most_popular returns is  *)
(* a record with the field error or the field items.  Text the code only   *)
(* produces (labels, messages) is a TLA+ string.  The parser admits ASCII  *)
(* only, so every Hangul literal of the source is written romanised (for   *)
(* instance "hoe" for the views suffix).                                   *)
(***************************************************************************)
EXTENDS Integers, Sequences, FiniteSets, TLC

VARIABLES
    \* ---- the application (specification Spec)
    now,          \* the clock the cache reads, in seconds
    auth_user,    \* st.session_state["auth_user"], "" when unset
    popCache,     \* st.cache_data store of fetch_most_popular: key -> entry
    catCache,     \* st.cache_data store of fetch_categories: key -> entry
    pc,           \* position of the script in the current render cycle
    outcome,      \* how the last script run ended, "running" during a run
    API_KEY,      \* line 14, read at the start of every script run
    auth_enabled, \* st.secrets["auth"]["enabled"], read by is_authenticated
    region,       \* the region text input of this cycle
    result,       \* line 241
    cat_map,      \* line 265
    filtered,     \* filtered_items, line 306
    shown,        \* what the cycle has put on the page, in order
    stages,       \* the pipeline stages the cycle has run, in order
    requests,     \* the HTTP requests the cycle has issued, in order
    orphaned,     \* whether a clear has dropped the store the call in flight writes to
    other,        \* the cached call another session of the server has in flight
    cleared,      \* history: the cache keys the run's refresh dropped
    popWindow,    \* history: key -> the store that opened the current TTL window
    catWindow,    \* history: the same for fetch_categories
    \* ---- one call of a function of the script (specification SpecCall)
    fn,           \* the function applied
    arg,          \* its input
    ret           \* its output, NotCalled before the call

appVars == <<now, auth_user, popCache, catCache, pc, outcome, API_KEY, auth_enabled,
             region, result, cat_map, filtered, shown, stages, requests, orphaned,
             other, cleared, popWindow, catWindow>>
callVars == <<fn, arg, ret>>
vars == <<appVars, callVars>>

(***************************************************************************)
(* Python values                                                           *)
(***************************************************************************)
PyNone == [t |-> "none"]
PyStr(s) == [t |-> "str", s |-> s]
PyInt(n) == [t |-> "int", n |-> n]
PyList(l) == [t |-> "list", l |-> l]
PyDict(p) == [t |-> "dict", p |-> p]
EmptyDict == PyDict(<<>>)

\* a str whose characters the model does not carry: the text of a timestamp
\* that datetime.fromisoformat accepts, naming the instant e in whole seconds
\* since the epoch, and one that fromisoformat rejects
IsoTime(e) == [t |-> "iso", e |-> e]
BadIsoTime == [t |-> "badiso"]

IsStr(v) == v.t \in {"str", "iso", "badiso"}
IsInt(v) == v.t = "int"
IsList(v) == v.t = "list"

\* whether v has a .get method
IsDict(v) == v.t = "dict"

\* bool(v) of a value as `or`, `not` and `if` read it
Truthy(v) ==
    CASE v.t = "none" -> FALSE
      [] v.t = "str" -> v.s # <<>>
      [] v.t = "int" -> v.n # 0
      [] v.t = "list" -> v.l # <<>>
      [] v.t = "dict" -> v.p # <<>>
      [] OTHER -> TRUE

\* a or b
PyOr(a, b) == IF Truthy(a) THEN a ELSE b

\* whether hash(v) returns: a list and a dict are unhashable
Hashable(v) == ~IsList(v) /\ ~IsDict(v)

\* type(v).__name__
TypeName(v) ==
    CASE v.t = "none" -> "NoneType"
      [] v.t = "int" -> "int"
      [] v.t = "list" -> "list"
      [] v.t = "dict" -> "dict"
      [] OTHER -> "str"

\* k in d
DictHas(d, k) == \E i \in 1..Len(d.p) : d.p[i][1] = k

\* d.get(k, default): the default only when the key is missing
DictGet(d, k, default) ==
    IF DictHas(d, k) THEN d.p[CHOOSE i \in 1..Len(d.p) : d.p[i][1] = k][2] ELSE default

\* d.get(k): None when the key is missing
DictGetNone(d, k) == DictGet(d, k, PyNone)

\* how a block of code ends: with a value, or raising exc (whose str is text)
Return(value) == [raised |-> FALSE, value |-> value]
Raise(exc, text) == [raised |-> TRUE, exc |-> exc, text |-> text]

\* an exception nothing reads the text of
Crash(exc) == [raised |-> TRUE, exc |-> exc]

\* str(e) of the AttributeError that v.attr raises
NoAttributeText(v, attr) ==
    "'" \o TypeName(v) \o "' object has no attribute '" \o attr \o "'"

(***************************************************************************)
(* Characters and int()                                                    *)
(***************************************************************************)
DigitChars == <<"0", "1", "2", "3", "4", "5", "6", "7", "8", "9">>

IsDigit(c) == \E i \in 1..10 : DigitChars[i] = c

DigitVal(c) == (CHOOSE i \in 1..10 : DigitChars[i] = c) - 1

\* c.isspace(): what str.strip() and int() drop at both ends
IsSpace(c) == c \in {" ", "\t", "\n", "\r", "\f"}

RECURSIVE LStrip(_)
LStrip(s) == IF s # <<>> /\ IsSpace(s[1]) THEN LStrip(Tail(s)) ELSE s

RECURSIVE RStrip(_)
RStrip(s) ==
    IF s # <<>> /\ IsSpace(s[Len(s)]) THEN RStrip(SubSeq(s, 1, Len(s) - 1)) ELSE s

\* str.strip()
Strip(s) == RStrip(LStrip(s))

\* the digits-and-underscores part of an int literal: digits at both ends,
\* never two underscores in a row
IsDigitRun(b) ==
    /\ b # <<>>
    /\ IsDigit(b[1]) /\ IsDigit(b[Len(b)])
    /\ \A i \in 1..Len(b) : IsDigit(b[i]) \/ b[i] = "_"
    /\ \A i \in 1..(Len(b) - 1) : ~(b[i] = "_" /\ b[i + 1] = "_")

RECURSIVE DigitRunVal(_, _)
DigitRunVal(b, acc) ==
    IF b = <<>> THEN acc
    ELSE IF b[1] = "_" THEN DigitRunVal(Tail(b), acc)
    ELSE DigitRunVal(Tail(b), acc * 10 + DigitVal(b[1]))

Raised == [ok |-> FALSE]
Returned(n) == [ok |-> TRUE, n |-> n]

\* int(s) of a str: surrounding whitespace, an optional sign, a digit run
IntOfStr(s) ==
    LET b == Strip(s)
        signed == b # <<>> /\ b[1] \in {"+", "-"}
        body == IF signed THEN Tail(b) ELSE b
    IN  IF ~IsDigitRun(body) THEN Raised
        ELSE IF signed /\ b[1] = "-" THEN Returned(0 - DigitRunVal(body, 0))
        ELSE Returned(DigitRunVal(body, 0))

\* int(v): ValueError on a str that is no literal, TypeError on None, a list
\* or a dict
PyIntOf(v) ==
    IF IsInt(v) THEN Returned(v.n)
    ELSE IF v.t = "str" THEN IntOfStr(v.s)
    ELSE Raised

(***************************************************************************)
(* format_views                                                            *)
(***************************************************************************)
NoViewsText == "johoesu jeongbo eopseum"

Pad3(n) ==
    IF n < 10 THEN "00" \o ToString(n)
    ELSE IF n < 100 THEN "0" \o ToString(n)
    ELSE ToString(n)

RECURSIVE GroupThousands(_)
\* f"{n:,}" of n >= 0
GroupThousands(n) ==
    IF n < 1000 THEN ToString(n)
    ELSE GroupThousands(n \div 1000) \o "," \o Pad3(n % 1000)

\* f"{n:,}"
CommaFormat(n) ==
    IF n < 0 THEN "-" \o GroupThousands(0 - n) ELSE GroupThousands(n)

format_views(views) ==
    LET r == PyIntOf(PyOr(views, PyInt(0)))
    IN  IF r.ok THEN CommaFormat(r.n) \o "hoe" ELSE NoViewsText

(***************************************************************************)
(* format_compact_korean                                                   *)
(***************************************************************************)
RECURSIVE BitLength(_)
BitLength(n) == IF n = 0 THEN 0 ELSE 1 + BitLength(n \div 2)

RECURSIVE FractionRemainder(_, _, _)
\* the remainder left of r/d after `bits` binary digits of the quotient
FractionRemainder(r, d, bits) ==
    IF bits = 0 \/ r = 0 THEN r
    ELSE FractionRemainder(IF 2 * r >= d THEN 2 * r - d ELSE 2 * r, d, bits - 1)

RECURSIVE LastFractionBit(_, _, _)
LastFractionBit(r, d, bits) ==
    IF r = 0 THEN 0
    ELSE IF bits = 1 THEN (IF 2 * r >= d THEN 1 ELSE 0)
    ELSE LastFractionBit(IF 2 * r >= d THEN 2 * r - d ELSE 2 * r, d, bits - 1)

\* n/d as Python computes it is the double nearest to the quotient: -1, 0 or 1
\* as that double lies below, on or above the exact quotient (n >= d > 0)
DoubleError(n, d) ==
    LET bits == 53 - BitLength(n \div d)
        r == FractionRemainder(n % d, d, bits)
    IN  IF r = 0 THEN 0
        ELSE IF 2 * r > d THEN 1
        ELSE IF 2 * r < d THEN -1
        ELSE IF LastFractionBit(n % d, d, bits) = 1 THEN 1 ELSE -1

\* f"{n/d:.1f}": the double n/d rounded to one decimal, ties of the double's
\* exact value going to the even digit
OneDecimal(n, d) ==
    LET whole == n \div d
        tenths == ((n % d) * 10) \div d
        rest == ((n % d) * 10) % d
        up == IF 2 * rest > d THEN TRUE
              ELSE IF 2 * rest < d THEN FALSE
              ELSE IF DoubleError(n, d) = 0 THEN tenths % 2 = 1
              ELSE DoubleError(n, d) = 1
        t == IF up THEN tenths + 1 ELSE tenths
    IN  [whole |-> IF t = 10 THEN whole + 1 ELSE whole,
         tenths |-> IF t = 10 THEN 0 ELSE t]

\* strip_trailing_zero(f"{n/d:.1f}")
strip_trailing_zero(x) ==
    IF x.tenths = 0 THEN ToString(x.whole)
    ELSE ToString(x.whole) \o "." \o ToString(x.tenths)

format_compact_korean(num) ==
    LET r == PyIntOf(PyOr(num, PyInt(0)))
    IN  IF ~r.ok THEN "-"
        ELSE IF r.n >= 100000000
            THEN strip_trailing_zero(OneDecimal(r.n, 100000000)) \o "eok"
        ELSE IF r.n >= 10000
            THEN strip_trailing_zero(OneDecimal(r.n, 10000)) \o "man"
        ELSE IF r.n >= 1000
            THEN strip_trailing_zero(OneDecimal(r.n, 1000)) \o "cheon"
        ELSE ToString(r.n)

(***************************************************************************)
(* parse_iso8601_duration                                                  *)
(***************************************************************************)
RECURSIVE LeadingDigits(_)
\* how many digits s starts with
LeadingDigits(s) ==
    IF s # <<>> /\ IsDigit(s[1]) THEN 1 + LeadingDigits(Tail(s)) ELSE 0

UnitRank(c) == CASE c = "H" -> 1 [] c = "M" -> 2 [] c = "S" -> 3 [] OTHER -> 0

NoMatch == [ok |-> FALSE]

RECURSIVE DurationGroups(_, _, _)
\* (?:(\d+)H)?(?:(\d+)M)?(?:(\d+)S)? against all of rest; groups[k] is the
\* value of group k, 0 when the group did not take part
DurationGroups(rest, minRank, groups) ==
    IF rest = <<>> THEN [ok |-> TRUE, g |-> groups]
    ELSE LET k == LeadingDigits(rest)
         IN  IF k = 0 \/ k = Len(rest) THEN NoMatch
             ELSE LET rank == UnitRank(rest[k + 1])
                  IN  IF rank = 0 \/ rank < minRank THEN NoMatch
                      ELSE DurationGroups(
                               SubSeq(rest, k + 2, Len(rest)), rank + 1,
                               [groups EXCEPT
                                   ![rank] = DigitRunVal(SubSeq(rest, 1, k), 0)])

\* re.fullmatch(r"PT(?:(\d+)H)?(?:(\d+)M)?(?:(\d+)S)?", pt)
DurationMatch(pt) ==
    IF Len(pt) < 2 \/ pt[1] # "P" \/ pt[2] # "T" THEN NoMatch
    ELSE DurationGroups(SubSeq(pt, 3, Len(pt)), 1, <<0, 0, 0>>)

\* f"{n:02d}"
Pad2(n) == IF n < 10 THEN "0" \o ToString(n) ELSE ToString(n)

\* re.fullmatch raises TypeError on a pattern argument that is no str
parse_iso8601_duration(pt) ==
    IF ~Truthy(pt) THEN Return("-")
    ELSE IF ~IsStr(pt) THEN Crash("TypeError")
    ELSE IF pt.t # "str" THEN Return("-")
    ELSE LET m == DurationMatch(pt.s)
         IN  IF ~m.ok THEN Return("-")
             ELSE LET h == m.g[1]
                      mi == m.g[2]
                      s == m.g[3]
                  IN  IF h * 3600 + mi * 60 + s <= 0 THEN Return("-")
                      ELSE IF h > 0
                          THEN Return(ToString(h) \o ":" \o Pad2(mi) \o ":" \o Pad2(s))
                      ELSE Return(ToString(mi) \o ":" \o Pad2(s))

(***************************************************************************)
(* format_relative_time_korean                                             *)
(*                                                                         *)
(* The timestamp is IsoTime(e) when it is a str datetime.fromisoformat     *)
(* accepts, e being the instant it names in whole seconds since the epoch. *)
(* BadIsoTime and, in this position, every PyStr stand for a str that      *)
(* fromisoformat rejects, and a value that is no str has no replace        *)
(* method: the except clause answers both.  clock is datetime.now in whole *)
(* seconds.                                                                *)
(***************************************************************************)
\* the label and its count; n = -1 for the two labels that carry no count
RelLabel(unit, n) == [unit |-> unit, n |-> n]

RelText(l) ==
    IF l.n < 0 THEN l.unit ELSE ToString(l.n) \o l.unit

relative_label(iso_time, clock) ==
    IF ~Truthy(iso_time) THEN RelLabel("-", -1)
    ELSE IF iso_time.t # "iso" THEN RelLabel("-", -1)
    ELSE LET seconds == clock - iso_time.e
             minutes == seconds \div 60
             hours == minutes \div 60
             days == hours \div 24
             weeks == days \div 7
             months == days \div 30
             years == days \div 365
         IN  IF seconds < 60 THEN RelLabel("banggeum jeon", -1)
             ELSE IF minutes < 60 THEN RelLabel("bun jeon", minutes)
             ELSE IF hours < 24 THEN RelLabel("sigan jeon", hours)
             ELSE IF days < 7 THEN RelLabel("il jeon", days)
             ELSE IF weeks < 5 THEN RelLabel("ju jeon", weeks)
             ELSE IF months < 12 THEN RelLabel("gaewol jeon", months)
             ELSE RelLabel("nyeon jeon", years)

format_relative_time_korean(iso_time, clock) ==
    RelText(relative_label(iso_time, clock))

(***************************************************************************)
(* Text: code points, lower(), `in`, sorted(), str() and repr()            *)
(***************************************************************************)
\* the printable ASCII characters from the space to the underscore, and from
\* a to the tilde, in code point order
PrintableLow ==
    <<" ", "!", "\"", "#", "$", "%", "&", "'", "(", ")", "*", "+", ",", "-", ".", "/",
      "0", "1", "2", "3", "4", "5", "6", "7", "8", "9", ":", ";", "<", "=", ">", "?",
      "@", "A", "B", "C", "D", "E", "F", "G", "H", "I", "J", "K", "L", "M", "N", "O",
      "P", "Q", "R", "S", "T", "U", "V", "W", "X", "Y", "Z", "[", "\\", "]", "^", "_">>

PrintableHigh ==
    <<"a", "b", "c", "d", "e", "f", "g", "h", "i", "j", "k", "l", "m", "n", "o",
      "p", "q", "r", "s", "t", "u", "v", "w", "x", "y", "z", "{", "|", "}", "~">>

\* ord(c)
CodePoint(c) ==
    IF \E i \in 1..Len(PrintableLow) : PrintableLow[i] = c
        THEN 31 + (CHOOSE i \in 1..Len(PrintableLow) : PrintableLow[i] = c)
    ELSE IF \E i \in 1..Len(PrintableHigh) : PrintableHigh[i] = c
        THEN 96 + (CHOOSE i \in 1..Len(PrintableHigh) : PrintableHigh[i] = c)
    ELSE CASE c = "\t" -> 9 [] c = "\n" -> 10 [] c = "\f" -> 12 [] c = "\r" -> 13

IsUpper(c) == CodePoint(c) >= 65 /\ CodePoint(c) <= 90

LowerChar(c) == IF IsUpper(c) THEN PrintableHigh[CodePoint(c) - 64] ELSE c

\* str.lower()
Lower(s) == [i \in 1..Len(s) |-> LowerChar(s[i])]

\* needle in hay
Contains(hay, needle) ==
    \E i \in 0..(Len(hay) - Len(needle)) : SubSeq(hay, i + 1, i + Len(needle)) = needle

RECURSIVE StrLess(_, _)
\* a < b of two str
StrLess(a, b) ==
    IF b = <<>> THEN FALSE
    ELSE IF a = <<>> THEN TRUE
    ELSE IF a[1] = b[1] THEN StrLess(Tail(a), Tail(b))
    ELSE CodePoint(a[1]) < CodePoint(b[1])

\* a < b of two str or of two int
ValueLess(a, b) == IF IsInt(a) THEN a.n < b.n ELSE StrLess(a.s, b.s)

RECURSIVE Sorted(_)
\* sorted(S) of a set of str or of a set of int
Sorted(S) ==
    IF S = {} THEN <<>>
    ELSE LET least == CHOOSE x \in S : \A y \in S \ {x} : ValueLess(x, y)
         IN  <<least>> \o Sorted(S \ {least})

RECURSIVE Text(_)
\* a str as the text a page shows
Text(s) == IF s = <<>> THEN "" ELSE s[1] \o Text(Tail(s))

RECURSIVE NatChars(_)
NatChars(n) ==
    IF n < 10 THEN <<DigitChars[n + 1]>>
    ELSE NatChars(n \div 10) \o <<DigitChars[(n % 10) + 1]>>

\* str(v) of a str or an int, as characters
StrChars(v) ==
    IF v.t = "str" THEN v.s
    ELSE IF v.n < 0 THEN <<"-">> \o NatChars(0 - v.n)
    ELSE NatChars(v.n)

\* one character of a str inside repr's quotes
ReprChar(c, quote) ==
    CASE c = "\\" -> "\\\\"
      [] c = quote -> "\\" \o c
      [] c = "\n" -> "\\n"
      [] c = "\t" -> "\\t"
      [] c = "\r" -> "\\r"
      [] c = "\f" -> "\\x0c"
      [] OTHER -> c

RECURSIVE ReprBody(_, _)
ReprBody(s, quote) ==
    IF s = <<>> THEN "" ELSE ReprChar(s[1], quote) \o ReprBody(Tail(s), quote)

\* repr(s) of a str: double quotes when s holds ' and no "
ReprStr(s) ==
    LET quote == IF (\E i \in 1..Len(s) : s[i] = "'") /\ ~(\E i \in 1..Len(s) : s[i] = "\"")
                     THEN "\"" ELSE "'"
    IN  quote \o ReprBody(s, quote) \o quote

RECURSIVE Repr(_), ReprItems(_), ReprPairs(_)
\* repr(v)
Repr(v) ==
    CASE v.t = "none" -> "None"
      [] v.t = "int" -> ToString(v.n)
      [] v.t = "str" -> ReprStr(v.s)
      [] v.t = "list" -> "[" \o ReprItems(v.l) \o "]"
      [] v.t = "dict" -> "{" \o ReprPairs(v.p) \o "}"

ReprItems(l) ==
    IF l = <<>> THEN ""
    ELSE Repr(l[1]) \o (IF Len(l) > 1 THEN ", " ELSE "") \o ReprItems(Tail(l))

ReprPairs(p) ==
    IF p = <<>> THEN ""
    ELSE "'" \o p[1][1] \o "': " \o Repr(p[1][2])
             \o (IF Len(p) > 1 THEN ", " ELSE "") \o ReprPairs(Tail(p))

\* f"{v}": str(v), which is repr(v) unless v is a str
FormatValue(v) == IF v.t = "str" THEN Text(v.s) ELSE Repr(v)

(***************************************************************************)
(* The filter sidebar and item_matches                                     *)
(*                                                                         *)
(* Nothing catches what lines 266-306 raise outside the two try blocks     *)
(* around the view count: the script run ends there.                       *)
(***************************************************************************)
\* the mapping of no category
EmptyMapping == [k \in {} |-> PyNone]

RECURSIVE category_ids(_, _)
\* the set comprehension of line 266 over the items its, ids being the set
\* built so far
category_ids(its, ids) ==
    IF its = <<>> THEN Return(ids)
    ELSE IF ~IsDict(its[1]) THEN Crash("AttributeError")
    ELSE LET sn == PyOr(DictGetNone(its[1], "snippet"), EmptyDict)
         IN  IF ~IsDict(sn) THEN Crash("AttributeError")
             ELSE LET cid == DictGetNone(sn, "categoryId")
                  IN  IF ~Truthy(cid) THEN category_ids(Tail(its), ids)
                      ELSE IF ~Hashable(cid) THEN Crash("TypeError")
                      ELSE category_ids(Tail(its), ids \cup {cid})

\* line 266: the truthy category ids of the items, sorted; items is what
\* result.get("items", []) returned; sorted() raises TypeError on a str
\* next to an int
present_ids(items) ==
    IF items.t \in {"none", "int"} THEN Crash("TypeError")
    ELSE IF ~IsList(items)
        THEN (IF Truthy(items) THEN Crash("AttributeError") ELSE Return(<<>>))
    ELSE LET r == category_ids(items.l, {})
         IN  IF r.raised THEN r
             ELSE IF (\E x \in r.value : IsInt(x)) /\ (\E x \in r.value : ~IsInt(x))
                 THEN Crash("TypeError")
             ELSE Return(Sorted(r.value))

\* cat_map.get(cid, f"ID {cid}")
CategoryLabel(cats, cid) ==
    IF cid \in DOMAIN cats THEN cats[cid] ELSE PyStr(<<"I", "D", " ">> \o StrChars(cid))

\* line 267, ids being present_ids
options(cats, ids) == [i \in 1..Len(ids) |-> CategoryLabel(cats, ids[i])]

\* line 270: a dict comprehension, a later id replacing an earlier one that
\* has the same label; a label that is a list or a dict cannot be a key
name_to_id(cats, ids) ==
    LET names == {CategoryLabel(cats, ids[i]) : i \in 1..Len(ids)}
    IN  IF \E name \in names : ~Hashable(name) THEN Crash("TypeError")
        ELSE Return([name \in names |->
                        ids[CHOOSE i \in 1..Len(ids) :
                                /\ CategoryLabel(cats, ids[i]) = name
                                /\ \A j \in (i + 1)..Len(ids) :
                                       CategoryLabel(cats, ids[j]) # name]])

\* line 271, names being name_to_id
selected_ids(names, selected_names) ==
    {names[name] : name \in selected_names \cap DOMAIN names}

\* the try/except around int(...get("viewCount", 0)), lines 276-279 and
\* 298-301; stt is v.get("statistics") or {}
ViewCountOf(stt) ==
    IF ~IsDict(stt) THEN 0
    ELSE LET r == PyIntOf(DictGet(stt, "viewCount", PyInt(0)))
         IN  IF r.ok THEN r.n ELSE 0

\* lines 274-281, its being the items; the try block of lines 276-279 holds
\* the v.get too
slider_max(its) ==
    LET view_values ==
            {IF IsDict(its[i])
                 THEN ViewCountOf(PyOr(DictGetNone(its[i], "statistics"), EmptyDict))
             ELSE 0 : i \in 1..Len(its)}
        vmax == IF view_values = {} THEN 0
                ELSE CHOOSE m \in view_values : \A x \in view_values : x <= m
    IN  IF vmax > 1000 THEN vmax ELSE 1000

\* (d.get(k) or "").lower(): whether the value has a lower method
HasLower(d, k) == IsStr(PyOr(DictGetNone(d, k), PyStr(<<>>)))

\* (d.get(k) or "").lower()
LowerOf(d, k) == Lower(PyOr(DictGetNone(d, k), PyStr(<<>>)).s)

\* lines 291-302 with a search that reads the title only
item_verdict_title_only(sn, stt, s) ==
    LET title == LowerOf(sn, "title")
        q == Strip(Lower(s.query))
        cid == DictGetNone(sn, "categoryId")
        vc == ViewCountOf(stt)
    IN  IF s.query # <<>> /\ q # <<>> /\ ~Contains(title, q) THEN Return(FALSE)
        ELSE IF s.ids # {} /\ ~Hashable(cid) THEN Crash("TypeError")
        ELSE IF s.ids # {} /\ cid \notin s.ids THEN Return(FALSE)
        ELSE IF vc < s.view_min \/ vc > s.view_max THEN Return(FALSE)
        ELSE Return(TRUE)

\* lines 291-302: the three criteria on the snippet sn and statistics stt
item_verdict(sn, stt, s) ==
    LET title == LowerOf(sn, "title")
        channel == LowerOf(sn, "channelTitle")
        q == Strip(Lower(s.query))
        cid == DictGetNone(sn, "categoryId")
        vc == ViewCountOf(stt)
    IN  IF s.query # <<>> /\ q # <<>> /\ ~Contains(title, q) /\ ~Contains(channel, q)
            THEN Return(FALSE)
        ELSE IF s.ids # {} /\ ~Hashable(cid) THEN Crash("TypeError")
        ELSE IF s.ids # {} /\ cid \notin s.ids THEN Return(FALSE)
        ELSE IF vc < s.view_min \/ vc > s.view_max THEN Return(FALSE)
        ELSE Return(TRUE)

\* s is the filter state: query, ids (selected_ids), view_min, view_max.
\* Lines 286-289 run for every item, whatever the state.
item_matches(v, s) ==
    IF ~IsDict(v) THEN Crash("AttributeError")
    ELSE LET sn == PyOr(DictGetNone(v, "snippet"), EmptyDict)
             stt == PyOr(DictGetNone(v, "statistics"), EmptyDict)
         IN  IF ~IsDict(sn) THEN Crash("AttributeError")
             ELSE IF ~HasLower(sn, "title") \/ ~HasLower(sn, "channelTitle")
                 THEN Crash("AttributeError")
             ELSE item_verdict(sn, stt, s)

RECURSIVE filtered_items(_, _)
\* line 306, its being the items
filtered_items(its, s) ==
    IF its = <<>> THEN Return(<<>>)
    ELSE LET m == item_matches(its[1], s)
         IN  IF m.raised THEN m
             ELSE LET rest == filtered_items(Tail(its), s)
                  IN  IF rest.raised THEN rest
                      ELSE IF m.value THEN Return(<<its[1]>> \o rest.value)
                      ELSE rest

(***************************************************************************)
(* The display loop body, lines 312-353                                    *)
(***************************************************************************)
NoTitle == PyStr(<<"j", "e", "m", "o", "k", " ", "e", "o", "p", "s", "e", "u", "m">>)
NoChannel ==
    PyStr(<<"c", "h", "a", "e", "n", "e", "o", "l", " ", "j", "e", "o", "n", "g", "b", "o",
            " ", "e", "o", "p", "s", "e", "u", "m">>)
NoThumbnail == "sseomneil eopseum"

\* lines 320-325: the first truthy variant, or {}
ThumbVariant(thumbs) ==
    PyOr(DictGetNone(thumbs, "medium"),
         PyOr(DictGetNone(thumbs, "high"),
              PyOr(DictGetNone(thumbs, "standard"),
                   PyOr(DictGetNone(thumbs, "default"), EmptyDict))))

\* what a pass of the loop body raises: out of an item that is no dict
\* (line 312), a snippet (317), thumbnails (321), a thumbnail variant (326),
\* statistics (328) or contentDetails (332) without a get method, and out of
\* re.fullmatch on a duration that is no str (333)
DisplayRaises(exc) == [ok |-> FALSE, error |-> exc]

\* one pass of the loop body for item v at position idx; nothing in the loop
\* catches what it raises
display_item(v, idx, clock) ==
    IF ~IsDict(v) THEN DisplayRaises("AttributeError")
    ELSE
    LET snip == DictGet(v, "snippet", EmptyDict)
        stats == DictGet(v, "statistics", EmptyDict)
        details == DictGet(v, "contentDetails", EmptyDict)
    IN  IF ~IsDict(snip) THEN DisplayRaises("AttributeError")
        ELSE IF ~IsDict(DictGet(snip, "thumbnails", EmptyDict))
            THEN DisplayRaises("AttributeError")
        ELSE IF ~IsDict(ThumbVariant(DictGet(snip, "thumbnails", EmptyDict)))
            THEN DisplayRaises("AttributeError")
        ELSE IF ~IsDict(stats) \/ ~IsDict(details) THEN DisplayRaises("AttributeError")
        ELSE IF parse_iso8601_duration(DictGetNone(details, "duration")).raised
            THEN DisplayRaises("TypeError")
        ELSE
    LET vid == DictGet(v, "id", PyStr(<<>>))
        title == DictGet(snip, "title", NoTitle)
        channel == DictGet(snip, "channelTitle", NoChannel)
        thumb == DictGetNone(ThumbVariant(DictGet(snip, "thumbnails", EmptyDict)), "url")
        view_text == format_views(DictGetNone(stats, "viewCount"))
        like_text == format_compact_korean(DictGetNone(stats, "likeCount"))
        comment_text == format_compact_korean(DictGetNone(stats, "commentCount"))
        duration_text == parse_iso8601_duration(DictGetNone(details, "duration")).value
        rel_time == format_relative_time_korean(DictGetNone(snip, "publishedAt"), clock)
        url == "https://www.youtube.com/watch?v=" \o FormatValue(vid)
    IN  [ok |-> TRUE,
         thumb |-> thumb,
         image |-> IF Truthy(thumb) THEN FormatValue(thumb) ELSE NoThumbnail,
         heading |-> "**" \o ToString(idx) \o ". [" \o FormatValue(title)
                          \o "](" \o url \o ")**",
         channel |-> "chaeneol: " \o FormatValue(channel),
         views |-> "johoesu: " \o view_text,
         stats |-> like_text \o " | " \o comment_text \o " | " \o duration_text
                      \o " | " \o rel_time]

(***************************************************************************)
(* The catalog client: fetch_most_popular and fetch_categories             *)
(*                                                                         *)
(* net is what requests.get does when the body calls it: a response        *)
(* [kind |-> "response", status_code, json, text] whose json is            *)
(* JsonRaises(exc, text) or Json(data), or an exception                    *)
(* [kind |-> "Timeout"], [kind |-> "RequestException", text],              *)
(* [kind |-> "Exception", text].  A call returns its value together with   *)
(* the requests it issued.                                                 *)
(***************************************************************************)
YOUTUBE_API_URL == "https://www.googleapis.com/youtube/v3/videos"
CATEGORIES_URL == "https://www.googleapis.com/youtube/v3/videoCategories"
MAX_RESULTS == 30

\* resp.json() raises exc, whose str is text, or returns data
JsonRaises(exc, text) == [raises |-> TRUE, exc |-> exc, text |-> text]
Json(data) == [raises |-> FALSE, data |-> data]

MissingKeyText == "API kiga seoljeongdoeji anatseumnida. .env-e YOUTUBE_API_KEY-reul seoljeonghaseyo."
TimeoutText == "yocheong sigani chogwadoeeotseumnida. jamsi hu dasi sidohaseyo."

Failure(message) == [error |-> message]
Success(items) == [items |-> items]

\* lines 45-49: the error message of a response that is not a 200; the inner
\* except catches what json() and the two .get raise
StatusMessage(resp) ==
    IF resp.json.raises THEN resp.text
    ELSE IF ~IsDict(resp.json.data) THEN resp.text
    ELSE IF ~IsDict(DictGet(resp.json.data, "error", EmptyDict)) THEN resp.text
    ELSE IF ~DictHas(DictGet(resp.json.data, "error", EmptyDict), "message") THEN resp.text
    ELSE FormatValue(DictGetNone(DictGet(resp.json.data, "error", EmptyDict), "message"))

\* lines 42-53: the try block
popular_try(net) ==
    IF net.kind # "response" THEN Raise(net.kind, net.text)
    ELSE IF net.status_code # 200
        THEN Return(Failure("YouTube API oryu (status " \o ToString(net.status_code)
                                \o "): " \o StatusMessage(net)))
    ELSE IF net.json.raises THEN Raise(net.json.exc, net.json.text)
    ELSE IF ~IsDict(net.json.data)
        THEN Raise("AttributeError", NoAttributeText(net.json.data, "get"))
    ELSE Return(Success(DictGet(net.json.data, "items", PyList(<<>>))))

\* popular_body without the except Exception clause of lines 58-59
popular_body_without_last_except(net) ==
    LET r == popular_try(net)
    IN  IF ~r.raised THEN r
        ELSE IF r.exc = "Timeout" THEN Return(Failure(TimeoutText))
        ELSE IF r.exc = "RequestException"
            THEN Return(Failure("neteuwokeu oryuga balsaenghaetseumnida: " \o r.text))
        ELSE r

\* lines 41-59: the try block under its three except clauses
popular_body(net) ==
    LET r == popular_try(net)
    IN  IF ~r.raised THEN r
        ELSE IF r.exc = "Timeout" THEN Return(Failure(TimeoutText))
        ELSE IF r.exc = "RequestException"
            THEN Return(Failure("neteuwokeu oryuga balsaenghaetseumnida: " \o r.text))
        ELSE Return(Failure("al su eomneun oryuga balsaenghaetseumnida: " \o r.text))

\* region_code or "KR"
RegionParam(region_code) == IF region_code = "" THEN "KR" ELSE region_code

\* a call's outcome with the requests it issued
WithRequests(r, issued) == [k \in DOMAIN r \cup {"requests"} |->
                               IF k = "requests" THEN issued ELSE r[k]]

\* lines 33-42: the request of fetch_most_popular
popular_request(api_key, region_code, max_results) ==
    [url |-> YOUTUBE_API_URL,
     regionCode |-> RegionParam(region_code),
     maxResults |-> max_results,
     key |-> api_key]

\* fetch_most_popular without the check of lines 30-31
fetch_most_popular_without_key_check(api_key, region_code, max_results, net) ==
    WithRequests(popular_body(net), <<popular_request(api_key, region_code, max_results)>>)

fetch_most_popular(api_key, region_code, max_results, net) ==
    IF api_key = "" THEN WithRequests(Return(Failure(MissingKeyText)), <<>>)
    ELSE WithRequests(popular_body(net),
                      <<popular_request(api_key, region_code, max_results)>>)

RECURSIVE category_mapping(_, _)
\* lines 80-85: the loop over the response's items, mapping being the dict
\* built so far
category_mapping(its, mapping) ==
    IF its = <<>> THEN Return(mapping)
    ELSE IF ~IsDict(its[1]) THEN Crash("AttributeError")
    ELSE IF ~IsDict(PyOr(DictGetNone(its[1], "snippet"), EmptyDict))
        THEN Crash("AttributeError")
    ELSE LET cid == DictGetNone(its[1], "id")
             name == DictGetNone(PyOr(DictGetNone(its[1], "snippet"), EmptyDict), "title")
         IN  IF Truthy(cid) /\ Truthy(name)
                 THEN (IF ~Hashable(cid) THEN Crash("TypeError")
                       ELSE category_mapping(Tail(its), (cid :> name) @@ mapping))
             ELSE category_mapping(Tail(its), mapping)

\* lines 75-86: the try block; the for loop raises TypeError on None and an
\* int, and walks the characters of a str and the keys of a dict
categories_try(net) ==
    IF net.kind # "response" THEN Crash(net.kind)
    ELSE IF net.status_code # 200 THEN Return(EmptyMapping)
    ELSE IF net.json.raises THEN Crash(net.json.exc)
    ELSE IF ~IsDict(net.json.data) THEN Crash("AttributeError")
    ELSE LET items == DictGet(net.json.data, "items", PyList(<<>>))
         IN  IF items.t \in {"none", "int"} THEN Crash("TypeError")
             ELSE IF ~IsList(items)
                 THEN (IF Truthy(items) THEN Crash("AttributeError")
                       ELSE Return(EmptyMapping))
             ELSE category_mapping(items.l, EmptyMapping)

\* lines 74-88: the try block under except Exception
categories_body(net) ==
    LET r == categories_try(net)
    IN  IF ~r.raised THEN r ELSE Return(EmptyMapping)

\* lines 68-75: the request of fetch_categories
categories_request(api_key, region_code) ==
    [url |-> CATEGORIES_URL,
     regionCode |-> RegionParam(region_code),
     key |-> api_key,
     hl |-> "ko"]

fetch_categories(api_key, region_code, net) ==
    IF api_key = "" THEN WithRequests(Return(EmptyMapping), <<>>)
    ELSE WithRequests(categories_body(net), <<categories_request(api_key, region_code)>>)

(***************************************************************************)
(* st.cache_data(ttl=...): a store from the call's arguments to the value  *)
(* returned and the time it was stored; an entry answers a call while its  *)
(* age is below the ttl.  On a miss the call computes the value under the  *)
(* key's lock and writes it when the function returns.  The stores are     *)
(* shared by every session of the server; st.cache_data.clear() replaces   *)
(* them with new ones, so that a call in flight writes to a store no       *)
(* lookup reads any more.                                                  *)
(***************************************************************************)
POPULAR_TTL == 300
CATEGORIES_TTL == 3600

EmptyCache == [k \in {} |-> 0]

\* a lookup that takes an entry to expire one second early
CacheHit_expires_early(cache, key, ttl, clock) ==
    key \in DOMAIN cache /\ clock < cache[key].stored + ttl - 1

CacheHit(cache, key, ttl, clock) ==
    key \in DOMAIN cache /\ clock < cache[key].stored + ttl

CacheStore(cache, key, value, clock) ==
    (key :> [stored |-> clock, value |-> value]) @@ cache

\* the write of a call that returns at clock; dropped is whether a clear has
\* replaced the store since the call's lookup
CacheWrite(cache, key, value, clock, dropped) ==
    IF dropped THEN cache ELSE CacheStore(cache, key, value, clock)

\* a refresh that clears the store of fetch_most_popular only
cache_clear_popular_only(caches) == [pop |-> EmptyCache, cat |-> caches[2]]

\* st.cache_data.clear(), line 237: the stores of both functions
cache_clear(caches) == [pop |-> EmptyCache, cat |-> EmptyCache]

(***************************************************************************)
(* The inputs of a script run                                              *)
(***************************************************************************)
\* bounds: the last instant of the clock, the longest item list
MaxTime == 3600
MaxItems == 2

ApiKeys == {"", "KEY"}

\* the region input, line 232: every session leaves it at DEFAULT_REGION
Regions == {"KR"}

\* [auth.users] of secrets.toml, as in the comment of lines 187-188
Users == [demo |-> "demo123"]
Logins == {<<"demo", "demo123">>, <<"demo", "guess">>}

\* the instants at which the clock is read: the start, then the last second
\* inside and the first second outside a TTL window opened at the start
Instants ==
    {t \in {0, POPULAR_TTL - 1, POPULAR_TTL, CATEGORIES_TTL - 1, CATEGORIES_TTL,
            CATEGORIES_TTL + POPULAR_TTL - 1, CATEGORIES_TTL + POPULAR_TTL} :
        t <= MaxTime}

ItemMusic ==
    PyDict(<< <<"id", PyStr(<<"a">>)>>,
              <<"snippet", PyDict(<< <<"title", PyStr(<<"A", "b">>)>>,
                                     <<"channelTitle", PyStr(<<"c">>)>>,
                                     <<"categoryId", PyStr(<<"1", "0">>)>> >>)>>,
              <<"statistics", PyDict(<< <<"viewCount", PyStr(<<"2", "0", "0", "0">>)>> >>)>> >>)

\* an item the filter takes and the display loop does not (statistics is
\* null), and that the category criterion cannot look up (categoryId is a
\* list)
ItemOdd ==
    PyDict(<< <<"id", PyStr(<<"n">>)>>,
              <<"snippet", PyDict(<< <<"title", PyStr(<<"X">>)>>,
                                     <<"categoryId", PyList(<<>>)>> >>)>>,
              <<"statistics", PyNone>> >>)

Response(status_code, json, text) ==
    [kind |-> "response", status_code |-> status_code, json |-> json, text |-> text]

JsonErrorText == "Expecting value: line 1 column 1 (char 0)"

\* what the videos endpoint does in a script run
CycleVideoAnswers ==
    {Response(200, Json(PyDict(<< <<"items", PyList(<<ItemMusic, ItemOdd>>)>> >>)), ""),
     Response(200, Json(EmptyDict), "{}"),
     Response(503, JsonRaises("RequestException", JsonErrorText), "")}

CategoryItem(cid, name) ==
    PyDict(<< <<"id", PyStr(cid)>>, <<"snippet", PyDict(<< <<"title", PyStr(name)>> >>)>> >>)

\* what the videoCategories endpoint does in a script run
CycleCategoryAnswers ==
    {Response(200, Json(PyDict(<< <<"items",
                   PyList(<<CategoryItem(<<"1", "0">>, <<"M">>)>>)>> >>)), ""),
     Response(403, JsonRaises("RequestException", JsonErrorText), "")}

(***************************************************************************)
(* The script                                                              *)
(***************************************************************************)
NoResult == [unset |-> TRUE]

\* no call of another session is in flight
NoOther == [query |-> "none"]

\* the answer of a call whose body returns before it issues a request
NoAnswer == [kind |-> "Timeout", text |-> ""]

\* lines 191-198
is_authenticated(enabled, user) ==
    IF ~enabled THEN TRUE
    ELSE IF user # "" THEN TRUE
    ELSE FALSE

\* lines 208-210: whether the login form's inputs name a configured user
LoginAccepted(uname, upwd) ==
    uname \in DOMAIN Users /\ Users[uname] # "" /\ Users[uname] = upwd

Init ==
    /\ now = 0
    /\ auth_user = ""
    /\ popCache = EmptyCache
    /\ catCache = EmptyCache
    /\ popWindow = EmptyCache
    /\ catWindow = EmptyCache
    /\ pc = "idle"
    /\ outcome = "none"
    /\ API_KEY \in ApiKeys
    /\ auth_enabled \in BOOLEAN
    /\ region = ""
    /\ result = NoResult
    /\ cat_map = EmptyMapping
    /\ filtered = <<>>
    /\ shown = <<>>
    /\ stages = <<>>
    /\ requests = <<>>
    /\ orphaned = FALSE
    /\ other = NoOther
    /\ cleared = {}
    /\ fn = "none"
    /\ arg = PyNone
    /\ ret = PyNone

\* what no stage of a script run changes
Fixed == <<now, API_KEY, auth_enabled, callVars>>

\* what only the cached calls and the refreshes change
Caches == <<popCache, catCache, popWindow, catWindow, orphaned, other>>

\* whether another session computes the value of this key of this query: the
\* key's lock keeps a second call of the same arguments waiting
Computing(query, key) == other = [query |-> query, key |-> key]

\* this session's script run waits at line 241 or 265 for the lock of the
\* key another session computes
Waiting ==
    \/ pc = "fetch" /\ Computing("popular", <<API_KEY, region, MAX_RESULTS>>)
    \/ pc = "categories" /\ Computing("categories", <<API_KEY, region>>)

\* time passes between two script runs, while requests.get blocks and while
\* the run waits for a lock
Tick(t) ==
    /\ pc \in {"idle", "popular request", "categories request"} \/ Waiting
    /\ t > now
    /\ now' = t
    /\ UNCHANGED <<auth_user, pc, outcome, API_KEY, auth_enabled, region, result,
                   cat_map, filtered, shown, stages, requests, cleared, Caches, callVars>>

\* a script run that finds the session not authenticated, lines 224-226:
\* login_ui, then st.rerun on an accepted login and st.stop otherwise
LoginGate(do_login, login) ==
    /\ pc = "idle"
    /\ ~is_authenticated(auth_enabled, auth_user)
    /\ stages' = <<"auth">>
    /\ IF do_login /\ LoginAccepted(login[1], login[2])
          THEN /\ auth_user' = login[1]
               /\ shown' = <<"login form", "st.success">>
               /\ outcome' = "login rerun"
       ELSE /\ auth_user' = auth_user
            /\ shown' = IF do_login THEN <<"login form", "st.error">>
                         ELSE <<"login form">>
            /\ outcome' = "stop"
    /\ pc' = "ended"
    /\ UNCHANGED <<region, result, cat_map, filtered, requests, cleared, Caches, Fixed>>

\* a script run that passes the auth gate, lines 224-228: logout_ui, which
\* ends the run with st.rerun when its button is pressed
AuthGate(do_logout) ==
    /\ pc = "idle"
    /\ is_authenticated(auth_enabled, auth_user)
    /\ stages' = <<"auth">>
    /\ shown' = <<"logout button">>
    /\ IF do_logout
          THEN /\ auth_user' = ""
               /\ outcome' = "logout rerun"
               /\ pc' = "ended"
       ELSE /\ auth_user' = auth_user
            /\ outcome' = "running"
            /\ pc' = "sidebar"
    /\ UNCHANGED <<region, result, cat_map, filtered, requests, cleared, Caches, Fixed>>

\* the script run is over: the page stays, the run's globals are gone
EndRun ==
    /\ pc = "ended"
    /\ pc' = "idle"
    /\ outcome' = "none"
    /\ region' = ""
    /\ result' = NoResult
    /\ cat_map' = EmptyMapping
    /\ filtered' = <<>>
    /\ shown' = <<>>
    /\ stages' = <<>>
    /\ requests' = <<>>
    /\ cleared' = {}
    /\ UNCHANGED <<auth_user, Caches, Fixed>>

\* lines 230-238: the region input and the refresh button; the clear leaves
\* the call another session has in flight with a store nothing reads
Sidebar(region_input, do_refresh) ==
    /\ pc = "sidebar"
    /\ region' = region_input
    /\ IF do_refresh
          THEN /\ popCache' = cache_clear(<<popCache, catCache>>).pop
               /\ catCache' = cache_clear(<<popCache, catCache>>).cat
               /\ popWindow' = EmptyCache
               /\ catWindow' = EmptyCache
               /\ other' = NoOther
               /\ cleared' = DOMAIN popCache \cup DOMAIN catCache
               /\ outcome' = "refresh rerun"
               /\ pc' = "ended"
       ELSE /\ UNCHANGED <<popCache, catCache, popWindow, catWindow, other, outcome,
                           cleared>>
            /\ pc' = "fetch"
    /\ UNCHANGED <<auth_user, result, cat_map, filtered, shown, stages, requests,
                   orphaned, Fixed>>

\* the history of TTL windows: a store opens a window for its key unless it
\* falls inside the window an earlier store opened, no refresh in between
WindowAfter(window, key, ttl, value, dropped) ==
    IF dropped THEN window
    ELSE IF key \in DOMAIN window /\ now < window[key].opened + ttl THEN window
    ELSE (key :> [opened |-> now, value |-> value]) @@ window

\* line 241, the cached call up to requests.get: the lookup, and on a miss
\* the body of fetch_most_popular up to line 42; a body that returns at line
\* 31 is written to the store at once
PopularLookup ==
    /\ pc = "fetch"
    /\ ~Computing("popular", <<API_KEY, region, MAX_RESULTS>>)
    /\ LET key == <<API_KEY, region, MAX_RESULTS>>
           r == fetch_most_popular(API_KEY, region, MAX_RESULTS, NoAnswer)
       IN  IF CacheHit(popCache, key, POPULAR_TTL, now)
              THEN /\ result' = popCache[key].value
                   /\ pc' = "check"
                   /\ UNCHANGED <<popCache, popWindow, requests>>
           ELSE IF r.requests = <<>>
              THEN /\ result' = r.value
                   /\ pc' = "check"
                   /\ popCache' = CacheWrite(popCache, key, r.value, now, FALSE)
                   /\ popWindow' = WindowAfter(popWindow, key, POPULAR_TTL, r.value, FALSE)
                   /\ UNCHANGED requests
           ELSE /\ requests' = requests \o r.requests
                /\ pc' = "popular request"
                /\ UNCHANGED <<result, popCache, popWindow>>
    /\ stages' = Append(stages, "popular")
    /\ UNCHANGED <<auth_user, catCache, catWindow, orphaned, other, outcome, region,
                   cat_map, filtered, shown, cleared, Fixed>>

\* line 241, the cached call from requests.get on: the rest of the body of
\* fetch_most_popular, then the write to the store
PopularAnswer(net) ==
    /\ pc = "popular request"
    /\ LET key == <<API_KEY, region, MAX_RESULTS>>
           r == fetch_most_popular(API_KEY, region, MAX_RESULTS, net)
       IN  /\ result' = r.value
           /\ popCache' = CacheWrite(popCache, key, r.value, now, orphaned)
           /\ popWindow' = WindowAfter(popWindow, key, POPULAR_TTL, r.value, orphaned)
    /\ orphaned' = FALSE
    /\ pc' = "check"
    /\ UNCHANGED <<auth_user, catCache, catWindow, other, outcome, region, cat_map,
                   filtered, shown, stages, requests, cleared, Fixed>>

\* CheckResult without the check of lines 252-254
CheckResult_without_empty_check ==
    /\ pc = "check"
    /\ IF "error" \in DOMAIN result
          THEN /\ shown' = shown \o <<"st.error", "st.info">>
               /\ outcome' = "stop"
               /\ pc' = "ended"
       ELSE /\ UNCHANGED <<shown, outcome>>
            /\ pc' = "categories"
    /\ UNCHANGED <<auth_user, region, result, cat_map, filtered, stages, requests,
                   cleared, Caches, Fixed>>

\* lines 243-254
CheckResult ==
    /\ pc = "check"
    /\ IF "error" \in DOMAIN result
          THEN /\ shown' = shown \o <<"st.error", "st.info">>
               /\ outcome' = "stop"
               /\ pc' = "ended"
       ELSE IF ~Truthy(result.items)
          THEN /\ shown' = Append(shown, "st.warning")
               /\ outcome' = "stop"
               /\ pc' = "ended"
       ELSE /\ UNCHANGED <<shown, outcome>>
            /\ pc' = "categories"
    /\ UNCHANGED <<auth_user, region, result, cat_map, filtered, stages, requests,
                   cleared, Caches, Fixed>>

\* line 265, the cached call up to requests.get
CategoriesLookup ==
    /\ pc = "categories"
    /\ ~Computing("categories", <<API_KEY, region>>)
    /\ LET key == <<API_KEY, region>>
           r == fetch_categories(API_KEY, region, NoAnswer)
       IN  IF CacheHit(catCache, key, CATEGORIES_TTL, now)
              THEN /\ cat_map' = catCache[key].value
                   /\ pc' = "filter"
                   /\ UNCHANGED <<catCache, catWindow, requests>>
           ELSE IF r.requests = <<>>
              THEN /\ cat_map' = r.value
                   /\ pc' = "filter"
                   /\ catCache' = CacheWrite(catCache, key, r.value, now, FALSE)
                   /\ catWindow' = WindowAfter(catWindow, key, CATEGORIES_TTL, r.value, FALSE)
                   /\ UNCHANGED requests
           ELSE /\ requests' = requests \o r.requests
                /\ pc' = "categories request"
                /\ UNCHANGED <<cat_map, catCache, catWindow>>
    /\ stages' = Append(stages, "categories")
    /\ UNCHANGED <<auth_user, popCache, popWindow, orphaned, other, outcome, region,
                   result, filtered, shown, cleared, Fixed>>

\* line 265, the cached call from requests.get on
CategoriesAnswer(net) ==
    /\ pc = "categories request"
    /\ LET key == <<API_KEY, region>>
           r == fetch_categories(API_KEY, region, net)
       IN  /\ cat_map' = r.value
           /\ catCache' = CacheWrite(catCache, key, r.value, now, orphaned)
           /\ catWindow' = WindowAfter(catWindow, key, CATEGORIES_TTL, r.value, orphaned)
    /\ orphaned' = FALSE
    /\ pc' = "filter"
    /\ UNCHANGED <<auth_user, popCache, popWindow, other, outcome, region, result,
                   filtered, shown, stages, requests, cleared, Fixed>>

\* lines 266-306 on the items, the category map and the widgets' inputs: the
\* query, the positions picked in the multiselect, the two ends of the
\* slider; the value is the filter state and filtered_items,
\* or what line 266, 270 or 306 raises (at: the line)
filter_sidebar(items, cats, query, pick, view_min, view_max) ==
    LET ids == present_ids(items)
    IN  IF ids.raised THEN [raised |-> TRUE, exc |-> ids.exc, at |-> 266]
        ELSE LET names == name_to_id(cats, ids.value)
             IN  IF names.raised THEN [raised |-> TRUE, exc |-> names.exc, at |-> 270]
                 ELSE
    LET opts == options(cats, ids.value)
        state == [query |-> query,
                  ids |-> selected_ids(names.value, {opts[i] : i \in pick}),
                  view_min |-> view_min,
                  view_max |-> view_max]
        kept == filtered_items(items.l, state)
    IN  IF kept.raised THEN [raised |-> TRUE, exc |-> kept.exc, at |-> 306]
        ELSE [raised |-> FALSE, state |-> state, filtered |-> kept.value]

\* the labels of the multiselect, line 267; none when line 266 raises
OptionsOf(items, cats) ==
    IF present_ids(items).raised THEN <<>>
    ELSE options(cats, present_ids(items).value)

\* slider_max of what line 241 returned
SliderTop(items) == IF IsList(items) THEN slider_max(items.l) ELSE 1000

\* lines 259-308 after the fetch_categories call: the filter sidebar, then
\* the filter; an exception ends the script run
FilterStage(query, whole_range) ==
    /\ pc = "filter"
    /\ \E pick \in SUBSET (1..Len(OptionsOf(result.items, cat_map))) :
       LET r == filter_sidebar(result.items, cat_map, query, pick, 0,
                               IF whole_range THEN SliderTop(result.items) ELSE 0)
       IN  IF r.raised
              THEN /\ outcome' = "crash"
                   /\ pc' = "ended"
                   /\ stages' = IF r.at = 306 THEN Append(stages, "filter") ELSE stages
                   /\ UNCHANGED <<filtered, shown>>
           ELSE /\ filtered' = r.filtered
                /\ stages' = Append(stages, "filter")
                /\ shown' = Append(shown, "st.subheader")
                /\ pc' = "display"
                /\ UNCHANGED outcome
    /\ UNCHANGED <<auth_user, region, result, cat_map, requests, cleared, Caches, Fixed>>

RECURSIVE RenderedRows(_, _)
\* the rows the display loop shows before it ends or an item raises
RenderedRows(items, idx) ==
    IF items = <<>> THEN <<>>
    ELSE IF ~display_item(items[1], idx, now).ok THEN <<>>
    ELSE <<"item">> \o RenderedRows(Tail(items), idx + 1)

\* lines 311-355
Display ==
    /\ pc = "display"
    /\ LET rows == RenderedRows(filtered, 1)
       IN  IF Len(rows) = Len(filtered)
              THEN /\ shown' = shown \o rows \o <<"st.success">>
                   /\ outcome' = "done"
           ELSE /\ shown' = shown \o rows
                /\ outcome' = "crash"
    /\ stages' = Append(stages, "render")
    /\ pc' = "ended"
    /\ UNCHANGED <<auth_user, region, result, cat_map, filtered, requests, cleared,
                   Caches, Fixed>>

\* whether this session's script run computes the value of this key of this
\* query in the stores the lookups read
ComputingHere(query, key) ==
    IF orphaned THEN FALSE
    ELSE IF query = "popular"
        THEN pc = "popular request" /\ key = <<API_KEY, region, MAX_RESULTS>>
    ELSE pc = "categories request" /\ key = <<API_KEY, region>>

\* where another session's step is taken: between two script runs, while a
\* request of this session's run is in flight, and between its two cached
\* calls; anywhere else the step and the run's step commute
Interleaved == pc \in {"idle", "popular request", "categories", "categories request"}

\* another session of the server presses its refresh button, line 237
OtherRefresh ==
    /\ Interleaved
    /\ popCache' = cache_clear(<<popCache, catCache>>).pop
    /\ catCache' = cache_clear(<<popCache, catCache>>).cat
    /\ popWindow' = EmptyCache
    /\ catWindow' = EmptyCache
    /\ other' = NoOther
    /\ orphaned' = (pc \in {"popular request", "categories request"})
    /\ UNCHANGED <<auth_user, pc, outcome, region, result, cat_map, filtered, shown,
                   stages, requests, cleared, Fixed>>

\* another session's script run reaches line 241 with region_code
OtherPopularLookup(region_code) ==
    /\ Interleaved
    /\ other = NoOther
    /\ ~ComputingHere("popular", <<API_KEY, region_code, MAX_RESULTS>>)
    /\ LET key == <<API_KEY, region_code, MAX_RESULTS>>
           r == fetch_most_popular(API_KEY, region_code, MAX_RESULTS, NoAnswer)
       IN  /\ ~CacheHit(popCache, key, POPULAR_TTL, now)
           /\ IF r.requests = <<>>
                 THEN /\ popCache' = CacheWrite(popCache, key, r.value, now, FALSE)
                      /\ popWindow' = WindowAfter(popWindow, key, POPULAR_TTL, r.value, FALSE)
                      /\ UNCHANGED other
              ELSE /\ other' = [query |-> "popular", key |-> key]
                   /\ UNCHANGED <<popCache, popWindow>>
    /\ UNCHANGED <<auth_user, catCache, catWindow, orphaned, pc, outcome, region, result,
                   cat_map, filtered, shown, stages, requests, cleared, Fixed>>

\* requests.get returns in another session's fetch_most_popular
OtherPopularAnswer(net) ==
    /\ Interleaved \/ Waiting
    /\ other # NoOther
    /\ other.query = "popular"
    /\ LET r == fetch_most_popular(other.key[1], other.key[2], other.key[3], net)
       IN  /\ popCache' = CacheWrite(popCache, other.key, r.value, now, FALSE)
           /\ popWindow' = WindowAfter(popWindow, other.key, POPULAR_TTL, r.value, FALSE)
    /\ other' = NoOther
    /\ UNCHANGED <<auth_user, catCache, catWindow, orphaned, pc, outcome, region, result,
                   cat_map, filtered, shown, stages, requests, cleared, Fixed>>

\* another session's script run reaches line 265 with region_code
OtherCategoriesLookup(region_code) ==
    /\ Interleaved
    /\ other = NoOther
    /\ ~ComputingHere("categories", <<API_KEY, region_code>>)
    /\ LET key == <<API_KEY, region_code>>
           r == fetch_categories(API_KEY, region_code, NoAnswer)
       IN  /\ ~CacheHit(catCache, key, CATEGORIES_TTL, now)
           /\ IF r.requests = <<>>
                 THEN /\ catCache' = CacheWrite(catCache, key, r.value, now, FALSE)
                      /\ catWindow' = WindowAfter(catWindow, key, CATEGORIES_TTL, r.value,
                                                  FALSE)
                      /\ UNCHANGED other
              ELSE /\ other' = [query |-> "categories", key |-> key]
                   /\ UNCHANGED <<catCache, catWindow>>
    /\ UNCHANGED <<auth_user, popCache, popWindow, orphaned, pc, outcome, region, result,
                   cat_map, filtered, shown, stages, requests, cleared, Fixed>>

\* requests.get returns in another session's fetch_categories
OtherCategoriesAnswer(net) ==
    /\ Interleaved \/ Waiting
    /\ other # NoOther
    /\ other.query = "categories"
    /\ LET r == fetch_categories(other.key[1], other.key[2], net)
       IN  /\ catCache' = CacheWrite(catCache, other.key, r.value, now, FALSE)
           /\ catWindow' = WindowAfter(catWindow, other.key, CATEGORIES_TTL, r.value, FALSE)
    /\ other' = NoOther
    /\ UNCHANGED <<auth_user, popCache, popWindow, orphaned, pc, outcome, region, result,
                   cat_map, filtered, shown, stages, requests, cleared, Fixed>>

Next ==
    \/ \E t \in Instants : Tick(t)
    \/ \E do_login \in BOOLEAN, login \in Logins : LoginGate(do_login, login)
    \/ \E do_logout \in BOOLEAN : AuthGate(do_logout)
    \/ EndRun
    \/ \E region_input \in Regions, do_refresh \in BOOLEAN :
          Sidebar(region_input, do_refresh)
    \/ PopularLookup
    \/ \E net \in CycleVideoAnswers : PopularAnswer(net)
    \/ CheckResult
    \/ CategoriesLookup
    \/ \E net \in CycleCategoryAnswers : CategoriesAnswer(net)
    \/ \E query \in {<<>>, <<"a">>}, whole_range \in BOOLEAN : FilterStage(query, whole_range)
    \/ Display
    \/ OtherRefresh
    \/ \E region_code \in Regions : OtherPopularLookup(region_code)
    \/ \E net \in CycleVideoAnswers : OtherPopularAnswer(net)
    \/ \E region_code \in Regions : OtherCategoriesLookup(region_code)
    \/ \E net \in CycleCategoryAnswers : OtherCategoriesAnswer(net)

Spec == Init /\ [][Next]_vars

(***************************************************************************)
(* One call of a function of the script on an input drawn from a bounded   *)
(* set (specification SpecCall)                                            *)
(***************************************************************************)
\* bounds: the longest count string, and the largest day count a timestamp
\* lies in the past
MaxStrLen == 3
MaxDays == 800

NotCalled == [done |-> FALSE]
Called(v) == [done |-> TRUE, v |-> v]

\* every str of at most n characters of A
Strings(A, n) == UNION {[1..k -> A] : k \in 0..n}

\* a dict of the pairs whose value is not Absent
Absent == [t |-> "absent"]
MakeDict(pairs) ==
    LET Present(x) == x[2] # Absent
    IN  PyDict(SelectSeq(pairs, Present))

\* the counts the API may send and what may stand in their place
CountInputs ==
    {PyNone, PyList(<<>>), PyList(<<PyInt(1)>>), EmptyDict,
     PyStr(<<"\t", "1", "2", "\n">>), PyStr(<<"1", "\f">>), PyStr(<<"\r">>)}
    \cup {PyStr(c) : c \in Strings({"0", "1", "a", " ", "_", "-"}, MaxStrLen)}
    \cup {PyInt(n) : n \in {0, 7, 999, 1000, 1050, 1150, 1250, 9949, 9950, 9999, 10000,
                             12543, 99999999, 100000000, 250000000, 2147483647}}

\* datetime.now(timezone.utc), in seconds since the epoch
Clocks == {1700000000, 1700000030}

Day == 24 * 3600

\* how long ago a timestamp may lie, in seconds: both sides of every bucket
\* boundary, and the future
Elapsed ==
    {e \in {-5, 0, 59, 60, 3599, 3600, Day - 1, Day, 7 * Day - 1, 7 * Day,
             35 * Day - 1, 35 * Day, 59 * Day, 60 * Day, 359 * Day, 360 * Day - 1,
             360 * Day, 364 * Day, 365 * Day - 1, 365 * Day, 729 * Day, 730 * Day,
             MaxDays * Day} :
        e <= MaxDays * Day}

TimeInputs(clock) ==
    {PyNone, PyStr(<<>>), PyStr(<<"x">>), BadIsoTime, PyInt(0), PyInt(5), PyList(<<>>),
     EmptyDict}
    \cup {IsoTime(clock - e) : e \in Elapsed}

\* the durations the API may send and what may stand in their place
DurationInputs ==
    {PyNone, PyInt(0), PyInt(90), PyList(<<>>), PyList(<<PyStr(<<"P", "T", "1", "S">>)>>),
     EmptyDict}
    \cup {PyStr(<<"P", "T">> \o s) : s \in Strings({"1", "0", "H", "M", "S"}, MaxStrLen + 1)}
    \cup {PyStr(s) : s \in Strings({"P", "T", "5", "S"}, MaxStrLen)}

\* the bodies a response may carry
JsonBodies ==
    {JsonRaises("ValueError", JsonErrorText),
     JsonRaises("RequestException", JsonErrorText),
     Json(EmptyDict), Json(PyList(<<>>)), Json(PyNone), Json(PyStr(<<"o", "k">>)),
     Json(PyInt(3)),
     Json(PyDict(<< <<"error", PyDict(<< <<"message",
                        PyStr(<<"q", "u", "o", "t", "a">>)>> >>)>> >>)),
     Json(PyDict(<< <<"error", PyDict(<< <<"message", PyNone>> >>)>> >>)),
     Json(PyDict(<< <<"error", PyDict(<< <<"message",
                        PyList(<<PyStr(<<"i", "t", "'", "s">>), PyInt(-4)>>)>> >>)>> >>)),
     Json(PyDict(<< <<"error", PyDict(<< <<"code", PyInt(403)>> >>)>> >>)),
     Json(PyDict(<< <<"error", PyStr(<<"x">>)>> >>)),
     Json(PyDict(<< <<"items", PyNone>> >>)),
     Json(PyDict(<< <<"items", PyStr(<<"a", "b">>)>> >>)),
     Json(PyDict(<< <<"items", PyDict(<< <<"a", PyInt(1)>> >>)>> >>)),
     Json(PyDict(<< <<"items", PyList(<<ItemMusic>>)>> >>)),
     Json(PyDict(<< <<"items", PyList(<<PyNone>>)>> >>)),
     Json(PyDict(<< <<"items",
              PyList(<<CategoryItem(<<"1", "0">>, <<"M">>),
                       PyDict(<< <<"id", PyStr(<<"2">>)>>, <<"snippet", PyNone>> >>),
                       PyDict(<< <<"snippet", PyDict(<< <<"title", PyStr(<<"C">>)>> >>)>> >>),
                       PyDict(<< <<"id", PyInt(7)>>,
                                 <<"snippet", PyDict(<< <<"title", PyList(<<PyInt(1)>>)>> >>)>> >>),
                       CategoryItem(<<"1", "0">>, <<"N">>)>>)>> >>)),
     Json(PyDict(<< <<"items",
              PyList(<<CategoryItem(<<"1", "0">>, <<"M">>),
                       PyDict(<< <<"id", PyStr(<<"2">>)>>,
                                 <<"snippet", PyStr(<<"x">>)>> >>)>>)>> >>)),
     Json(PyDict(<< <<"items",
              PyList(<<CategoryItem(<<"1", "0">>, <<"M">>),
                       PyDict(<< <<"id", PyList(<<PyInt(1)>>)>>,
                                 <<"snippet", PyDict(<< <<"title", PyStr(<<"C">>)>> >>)>> >>)>>)>> >>))}

\* what requests.get may do
NetAnswers ==
    {Response(status, json, text) :
        status \in {200, 204, 301, 404, 500}, json \in JsonBodies,
        text \in {"", "Service Unavailable"}}
    \cup {[kind |-> "Timeout", text |-> ""]}
    \cup {[kind |-> "RequestException", text |-> t] : t \in {"", "Connection refused"}}
    \cup {[kind |-> "Exception", text |-> "unexpected"]}

Regions3 == {"", "KR", "US"}

Url(u) == PyDict(<< <<"url", PyStr(u)>> >>)

\* the thumbnails a snippet may carry
Thumbnails ==
    {Absent, PyNone, EmptyDict, PyStr(<<"t">>),
     PyDict(<< <<"medium", PyNone>>, <<"default", Url(<<"d">>)>> >>),
     PyDict(<< <<"high", Url(<<"h">>)>>, <<"standard", Url(<<"s">>)>> >>),
     PyDict(<< <<"medium", EmptyDict>>,
               <<"high", PyDict(<< <<"width", PyInt(480)>> >>)>> >>),
     PyDict(<< <<"medium", PyStr(<<"x">>)>> >>),
     PyDict(<< <<"medium", PyStr(<<>>)>>, <<"standard", Url(<<"s">>)>> >>),
     PyDict(<< <<"t", PyStr(<<"x">>)>>, <<"default", PyDict(<< <<"t", PyStr(<<"x">>)>>,
                                                              <<"url", PyInt(5)>> >>)>> >>)}

\* the raw items a videos response may carry: every part missing, null or
\* there, and of another type than the API documents
Snippets ==
    {Absent, PyNone, EmptyDict, PyStr(<<"x">>), PyList(<<>>)}
    \cup {MakeDict(<< <<"title", t>>, <<"channelTitle", c>>,
                      <<"publishedAt", IsoTime(1699990000)>>, <<"thumbnails", th>> >>) :
            t \in {Absent, PyNone, PyStr(<<"A">>), PyInt(5),
                   PyList(<<PyStr(<<"a">>), PyNone>>)},
            c \in {Absent, PyNone},
            th \in Thumbnails}

Statistics ==
    {Absent, PyNone, EmptyDict, PyInt(7),
     PyDict(<< <<"viewCount", PyStr(<<"1", "2", "3", "4">>)>>, <<"likeCount", PyNone>> >>),
     PyDict(<< <<"viewCount", PyNone>>,
               <<"likeCount", PyStr(<<"1", "5", "0", "0", "0">>)>>,
               <<"commentCount", PyStr(<<"x">>)>> >>)}

ContentDetails ==
    {Absent, PyNone, EmptyDict, PyList(<<PyInt(1)>>),
     PyDict(<< <<"duration", PyNone>> >>),
     PyDict(<< <<"duration", PyInt(90)>> >>),
     PyDict(<< <<"duration", PyStr(<<"P", "T", "5", "M", "3", "2", "S">>)>> >>)}

RawItems ==
    {MakeDict(<< <<"id", i>>, <<"snippet", sn>>, <<"statistics", st>>,
                 <<"contentDetails", cd>> >>) :
        i \in {Absent, PyStr(<<"v">>)}, sn \in Snippets, st \in Statistics,
        cd \in ContentDetails}
    \cup {PyNone, PyStr(<<"v">>)}

\* the items the filter is tried on
FilterItem(title, channel, cid, views) ==
    PyDict(<< <<"id", PyStr(<<"v">>)>>,
              <<"snippet", MakeDict(<< <<"title", title>>, <<"channelTitle", channel>>,
                                       <<"categoryId", cid>> >>)>>,
              <<"statistics", MakeDict(<< <<"viewCount", views>> >>)>> >>)

FilterItems ==
    {FilterItem(PyStr(<<"A", "b">>), PyStr(<<"c">>), PyStr(<<"1", "0">>),
                PyStr(<<"2", "0", "0", "0">>)),
     FilterItem(PyNone, PyStr(<<"B", " ", "a">>), PyStr(<<"2", "3">>), Absent),
     FilterItem(PyStr(<<"b">>), Absent, PyStr(<<"3", "4">>), PyStr(<<"a">>)),
     FilterItem(PyStr(<<"a", "B">>), PyStr(<<"C">>), PyNone, PyInt(1000)),
     PyDict(<< <<"id", PyStr(<<"v">>)>>, <<"snippet", PyNone>>, <<"statistics", PyNone>> >>)}

\* items of another type than the API documents
OddItems ==
    {PyNone, PyStr(<<"v">>),
     PyDict(<< <<"snippet", PyStr(<<"x">>)>> >>),
     PyDict(<< <<"snippet", PyList(<<PyStr(<<"a">>)>>)>>, <<"statistics", PyInt(5)>> >>),
     PyDict(<< <<"statistics", PyList(<<PyInt(5)>>)>> >>),
     FilterItem(PyInt(5), Absent, PyStr(<<"1", "0">>), Absent),
     FilterItem(PyStr(<<"a">>), PyList(<<PyStr(<<"a">>)>>), Absent, Absent),
     FilterItem(PyInt(0), PyList(<<>>), PyInt(10), PyList(<<>>)),
     FilterItem(PyStr(<<"a">>), Absent, PyList(<<>>), EmptyDict),
     FilterItem(PyStr(<<"a">>), Absent, PyList(<<PyStr(<<"1", "0">>)>>), Absent),
     FilterItem(PyStr(<<"\t">>), Absent, EmptyDict, PyStr(<<"\t", "7", "\n">>))}

ItemLists == UNION {[1..k -> FilterItems] : k \in 0..MaxItems}

\* what result.get("items", []) may hand to the filter sidebar
ItemInputs ==
    {PyList(l) : l \in ItemLists}
    \cup {PyList(<<x>>) : x \in OddItems}
    \cup {PyList(<<v, x>>) : v \in FilterItems, x \in OddItems}
    \cup {PyStr(<<"a", "b">>), PyInt(3), PyDict(<< <<"a", PyInt(1)>> >>)}

Queries == {<<>>, <<" ">>, <<"a">>, <<" ", "B", " ">>, <<"a", "b">>, <<"c">>, <<"\t", "c", "\n">>}

\* the category maps fetch_categories may return
CategoryMaps ==
    {EmptyMapping,
     (PyStr(<<"1", "0">>) :> PyStr(<<"M">>)),
     (PyStr(<<"2", "3">>) :> PyStr(<<"C">>)) @@ (PyStr(<<"3", "4">>) :> PyStr(<<"C">>)),
     (PyStr(<<"1", "0">>) :> PyList(<<PyStr(<<"M">>)>>)) @@ (PyInt(10) :> PyInt(4))}

\* the ends the range slider can be put at: step 1000 from 0, and its maximum
SliderEnds(items) ==
    {n \in {0, 1000, 2000, SliderTop(items)} : n <= SliderTop(items)}

Range(f) == {f[i] : i \in DOMAIN f}

InitCall ==
    /\ now = 0
    /\ auth_user = ""
    /\ popCache = EmptyCache
    /\ catCache = EmptyCache
    /\ popWindow = EmptyCache
    /\ catWindow = EmptyCache
    /\ pc = "idle"
    /\ outcome = "none"
    /\ API_KEY = ""
    /\ auth_enabled = FALSE
    /\ region = ""
    /\ result = NoResult
    /\ cat_map = EmptyMapping
    /\ filtered = <<>>
    /\ shown = <<>>
    /\ stages = <<>>
    /\ requests = <<>>
    /\ orphaned = FALSE
    /\ other = NoOther
    /\ cleared = {}
    /\ ret = NotCalled
    /\ \/ fn = "format_views" /\ arg \in CountInputs
       \/ fn = "format_compact_korean" /\ arg \in CountInputs
       \/ fn = "parse_iso8601_duration" /\ arg \in DurationInputs
       \/ /\ fn = "format_relative_time_korean"
          /\ \E clock \in Clocks : \E iso_time \in TimeInputs(clock) :
                arg = [iso_time |-> iso_time, clock |-> clock]
       \/ /\ fn = "fetch_most_popular"
          /\ arg \in [api_key : ApiKeys, region_code : Regions3, net : NetAnswers]
       \/ /\ fn = "fetch_categories"
          /\ arg \in [api_key : ApiKeys, region_code : Regions3, net : NetAnswers]
       \/ /\ fn = "display"
          /\ arg \in [v : RawItems, idx : {1}, clock : {1700000000}]
       \/ /\ fn = "filter"
          /\ \E items \in ItemInputs, cats \in CategoryMaps, query \in Queries :
             \E pick \in SUBSET (1..Len(OptionsOf(items, cats))) :
             \E view_min \in SliderEnds(items) :
             \E view_max \in {n \in SliderEnds(items) : n >= view_min} :
                arg = [items |-> items, cats |-> cats, query |-> query,
                       pick |-> pick, view_min |-> view_min, view_max |-> view_max]

CallFormatViews ==
    /\ fn = "format_views" /\ ~ret.done
    /\ ret' = Called(format_views(arg))
    /\ UNCHANGED <<appVars, fn, arg>>

CallFormatCompactKorean ==
    /\ fn = "format_compact_korean" /\ ~ret.done
    /\ ret' = Called(format_compact_korean(arg))
    /\ UNCHANGED <<appVars, fn, arg>>

CallParseDuration ==
    /\ fn = "parse_iso8601_duration" /\ ~ret.done
    /\ ret' = Called(parse_iso8601_duration(arg))
    /\ UNCHANGED <<appVars, fn, arg>>

CallFormatRelativeTime ==
    /\ fn = "format_relative_time_korean" /\ ~ret.done
    /\ ret' = Called([label |-> relative_label(arg.iso_time, arg.clock),
                       text |-> format_relative_time_korean(arg.iso_time, arg.clock)])
    /\ UNCHANGED <<appVars, fn, arg>>

CallFetchMostPopular ==
    /\ fn = "fetch_most_popular" /\ ~ret.done
    /\ ret' = Called(fetch_most_popular(arg.api_key, arg.region_code, MAX_RESULTS, arg.net))
    /\ UNCHANGED <<appVars, fn, arg>>

CallFetchCategories ==
    /\ fn = "fetch_categories" /\ ~ret.done
    /\ ret' = Called(fetch_categories(arg.api_key, arg.region_code, arg.net))
    /\ UNCHANGED <<appVars, fn, arg>>

CallDisplay ==
    /\ fn = "display" /\ ~ret.done
    /\ ret' = Called(display_item(arg.v, arg.idx, arg.clock))
    /\ UNCHANGED <<appVars, fn, arg>>

\* lines 266-271 and 285-306 on the inputs of the filter sidebar
CallFilter ==
    /\ fn = "filter" /\ ~ret.done
    /\ ret' = Called(filter_sidebar(arg.items, arg.cats, arg.query, arg.pick,
                                     arg.view_min, arg.view_max))
    /\ UNCHANGED <<appVars, fn, arg>>

NextCall ==
    \/ CallFormatViews
    \/ CallFormatCompactKorean
    \/ CallParseDuration
    \/ CallFormatRelativeTime
    \/ CallFetchMostPopular
    \/ CallFetchCategories
    \/ CallDisplay
    \/ CallFilter

SpecCall == InitCall /\ [][NextCall]_vars

(***************************************************************************)
(* Properties of the cache and the pipeline (specification Spec)           *)
(***************************************************************************)
PopularKey == <<API_KEY, region, MAX_RESULTS>>
CategoriesKey == <<API_KEY, region>>

\* the script run calls the cached function
PopularCallStep == pc = "fetch" /\ pc' # "fetch"
CategoriesCallStep == pc = "categories" /\ pc' # "categories"

\* the cached function's body returns and its value is written to the store
\* the lookups read
PopularStoreStep == pc = "popular request" /\ pc' = "check" /\ ~orphaned
CategoriesStoreStep == pc = "categories request" /\ pc' = "filter" /\ ~orphaned

\* whether a call for key falls inside the window an earlier call opened
InWindow(window, key, ttl) == key \in DOMAIN window /\ now < window[key].opened + ttl

IsPrefix(a, b) == Len(a) <= Len(b) /\ SubSeq(b, 1, Len(a)) = a

\* C1: a call of a cached query whose arguments an earlier call carried, made
\* inside the TTL window that call opened (300 s for fetch_most_popular,
\* 3600 s for fetch_categories) with no refresh in between, returns the value
\* the earlier call returned, a Failure or an empty mapping included, and
\* issues no request; and no request's answer is stored for a key whose
\* window is open, so that a window sees one request.
C1_RepeatedCallInWindowIsServedFromCache ==
    [][/\ (PopularCallStep /\ InWindow(popWindow, PopularKey, 300))
            => /\ pc' = "check"
               /\ result' = popWindow[PopularKey].value
               /\ requests' = requests
       /\ (CategoriesCallStep /\ InWindow(catWindow, CategoriesKey, 3600))
            => /\ pc' = "filter"
               /\ cat_map' = catWindow[CategoriesKey].value
               /\ requests' = requests
       /\ PopularStoreStep => ~InWindow(popWindow, PopularKey, 300)
       /\ CategoriesStoreStep => ~InWindow(catWindow, CategoriesKey, 3600)]_vars

\* C1 witness: with a credential set, a later call inside the window has
\* returned the Failure of the call that opened it, without a request.
C1_Witness ==
    /\ pc = "check"
    /\ API_KEY # ""
    /\ "error" \in DOMAIN result
    /\ requests = <<>>
    /\ PopularKey \in DOMAIN popWindow
    /\ popWindow[PopularKey].opened < now
    /\ popWindow[PopularKey].value = result

\* C2: the refresh leaves no entry in either store, and with a credential
\* set the first call of either query after a refresh (or ever), like the
\* first call after the window of its key has run out, issues one request.
C2_RefreshAndExpiryForceLiveFetch ==
    [][/\ (pc = "sidebar" /\ outcome' = "refresh rerun")
            => DOMAIN popCache' = {} /\ DOMAIN catCache' = {}
       /\ (PopularCallStep /\ API_KEY # "" /\ ~InWindow(popWindow, PopularKey, 300))
            => /\ pc' = "popular request"
               /\ Len(requests') = Len(requests) + 1
               /\ requests'[Len(requests')].url = YOUTUBE_API_URL
       /\ (CategoriesCallStep /\ API_KEY # ""
              /\ ~InWindow(catWindow, CategoriesKey, 3600))
            => /\ pc' = "categories request"
               /\ Len(requests') = Len(requests) + 1
               /\ requests'[Len(requests')].url = CATEGORIES_URL]_vars

\* C2 witness: a refresh has dropped entries of both queries.
C2_Witness ==
    /\ outcome = "refresh rerun"
    /\ \E k \in cleared : Len(k) = 3
    /\ \E k \in cleared : Len(k) = 2
    /\ DOMAIN popCache = {} /\ DOMAIN catCache = {}

\* C3: with an empty credential no session issues a request, and what
\* fetch_most_popular returned is a Failure carrying a message.
C3_EmptyCredentialFailsWithoutRequest ==
    API_KEY = ""
        => /\ requests = <<>>
           /\ other = NoOther
           /\ pc # "popular request"
           /\ result # NoResult => ("error" \in DOMAIN result /\ result.error # "")

\* C3 witness: without a credential, a run past the first instant has got
\* its Failure from a call of that instant, not from the store.
C3_Witness ==
    /\ API_KEY = ""
    /\ pc = "check"
    /\ now > 0
    /\ "error" \in DOMAIN result
    /\ PopularKey \in DOMAIN popCache
    /\ popCache[PopularKey].stored = now

PipelineOrder == <<"auth", "popular", "categories", "filter", "render">>

CategoryRequests == {i \in 1..Len(requests) : requests[i].url = CATEGORIES_URL}

ItemRows == {i \in 1..Len(shown) : shown[i] = "item"}

NothingAfterTheFetch ==
    /\ stages = <<"auth", "popular">>
    /\ CategoryRequests = {}
    /\ cat_map = EmptyMapping
    /\ filtered = <<>>
    /\ ItemRows = {}

\* C5: the stages of a run are a prefix of auth gate, popular fetch, category
\* fetch, filter, rendering; (a) a run that finds login enabled and no
\* authenticated user ends at the gate having shown the login form only and
\* fetched nothing; (b) after a Failure the run shows one error and the
\* guidance and runs no later stage; (c) after an empty item list the run
\* shows a warning and runs no later stage.
C5_HaltsEndTheRun ==
    /\ [](/\ IsPrefix(stages, PipelineOrder)
          /\ (result # NoResult /\ "error" \in DOMAIN result)
                => /\ NothingAfterTheFetch
                   /\ pc \in {"check", "ended"}
                   /\ pc = "ended" => shown = <<"logout button", "st.error", "st.info">>
          /\ (result # NoResult /\ "error" \notin DOMAIN result /\ ~Truthy(result.items))
                => /\ NothingAfterTheFetch
                   /\ pc \in {"check", "ended"}
                   /\ pc = "ended" => shown = <<"logout button", "st.warning">>)
    /\ [][(pc = "idle" /\ pc' # "idle" /\ auth_enabled /\ auth_user = "")
             => /\ pc' = "ended"
                /\ stages' = <<"auth">>
                /\ requests' = <<>>
                /\ shown'[1] = "login form"
                /\ \A i \in 2..Len(shown') : shown'[i] \in {"st.success", "st.error"}]_vars

\* C5 witness: a run ended on the Failure of a live fetch.
C5_Witness ==
    /\ pc = "ended"
    /\ "error" \in DOMAIN result
    /\ Len(requests) = 1
    /\ shown = <<"logout button", "st.error", "st.info">>

(***************************************************************************)
(* Properties of the functions (specification SpecCall)                    *)
(***************************************************************************)
\* a response the client cannot use: an exception, a status >= 300, or a
\* body that cannot be read as a JSON object
Faulty(net) ==
    \/ net.kind # "response"
    \/ net.status_code >= 300
    \/ net.status_code = 200 /\ (net.json.raises \/ ~IsDict(net.json.data))

\* C4: for a status >= 300 and for an exception of requests.get or of reading
\* the response, fetch_most_popular returns a Failure with a message that is
\* not empty, fetch_categories returns an empty mapping, and neither raises.
C4_FaultsBecomeFailures ==
    (ret.done /\ fn \in {"fetch_most_popular", "fetch_categories"})
        => ((arg.api_key # "" /\ Faulty(arg.net))
            => /\ ~ret.v.raised
               /\ fn = "fetch_most_popular"
                    => "error" \in DOMAIN ret.v.value /\ ret.v.value.error # ""
               /\ fn = "fetch_categories" => ret.v.value = EmptyMapping)

\* C4 witness: a 404 whose body is neither JSON nor any text gave a Failure.
C4_Witness ==
    /\ ret.done
    /\ fn = "fetch_most_popular"
    /\ arg.api_key # ""
    /\ arg.net.kind = "response"
    /\ arg.net.status_code = 404
    /\ arg.net.json.raises
    /\ arg.net.text = ""
    /\ "error" \in DOMAIN ret.v.value

\* whether d[k] is missing, null or of one of the types
FieldIs(d, k, types) == DictGetNone(d, k).t \in {"none"} \cup types

\* an item as the API documents it, as far as the filter reads it: snippet
\* and statistics missing, null or objects; title, channelTitle and
\* categoryId missing, null or strings
FilterReadable(v) ==
    /\ IsDict(v)
    /\ FieldIs(v, "snippet", {"dict"})
    /\ FieldIs(v, "statistics", {"dict"})
    /\ LET sn == PyOr(DictGetNone(v, "snippet"), EmptyDict)
       IN  /\ FieldIs(sn, "title", {"str"})
           /\ FieldIs(sn, "channelTitle", {"str"})
           /\ FieldIs(sn, "categoryId", {"str"})

\* a filter sidebar whose items and category map are as the API documents
FilterInputReadable(a) ==
    /\ IsList(a.items)
    /\ \A i \in 1..Len(a.items.l) : FilterReadable(a.items.l[i])
    /\ \A cid \in DOMAIN a.cats : cid.t = "str" /\ a.cats[cid].t = "str"

\* the item's raw category id
RawCategoryId(v) ==
    DictGetNone(PyOr(DictGetNone(v, "snippet"), EmptyDict), "categoryId")

\* the three criteria as the claim words them
TitleOf(v) ==
    LET sn == PyOr(DictGetNone(v, "snippet"), EmptyDict)
    IN  PyOr(DictGetNone(sn, "title"), PyStr(<<>>)).s

ChannelOf(v) ==
    LET sn == PyOr(DictGetNone(v, "snippet"), EmptyDict)
    IN  PyOr(DictGetNone(sn, "channelTitle"), PyStr(<<>>)).s

\* the view count, 0 when absent or unparseable
ViewsOf(v) ==
    LET stt == PyOr(DictGetNone(v, "statistics"), EmptyDict)
    IN  IF DictHas(stt, "viewCount") /\ PyIntOf(DictGetNone(stt, "viewCount")).ok
            THEN PyIntOf(DictGetNone(stt, "viewCount")).n
        ELSE 0

TextCriterion(v, st) ==
    LET q == Lower(Strip(st.query))
    IN  \/ q = <<>>
        \/ Contains(Lower(TitleOf(v)), q)
        \/ Contains(Lower(ChannelOf(v)), q)

CategoryCriterion(v, st) == st.ids = {} \/ RawCategoryId(v) \in st.ids

RangeCriterion(v, st) == st.view_min <= ViewsOf(v) /\ ViewsOf(v) <= st.view_max

\* C6: on items as the API documents them the filter returns, in input
\* order, exactly the items that meet the text, the category and the range
\* criterion together; filtering its output again changes nothing; and with
\* range [0, 0] and no other criterion it keeps exactly the items whose view
\* count is absent or zero.
C6_FilterKeepsExactlyTheMatches ==
    (fn = "filter" /\ ret.done /\ FilterInputReadable(arg))
        => /\ ~ret.v.raised
           /\ LET st == ret.v.state
                  Keep(v) == TextCriterion(v, st) /\ CategoryCriterion(v, st)
                                 /\ RangeCriterion(v, st)
                  ZeroViews(v) == ViewsOf(v) = 0
              IN  /\ ret.v.filtered = SelectSeq(arg.items.l, Keep)
                  /\ filtered_items(ret.v.filtered, st) = Return(ret.v.filtered)
                  /\ (st.view_max = 0 /\ st.query = <<>> /\ st.ids = {})
                       => ret.v.filtered = SelectSeq(arg.items.l, ZeroViews)

\* C6 witness: with a search text, a category and a narrowed range all set,
\* the filter kept one of two items.
C6_Witness ==
    /\ fn = "filter" /\ ret.done
    /\ FilterInputReadable(arg)
    /\ Len(arg.items.l) = 2
    /\ ~ret.v.raised
    /\ Len(ret.v.filtered) = 1
    /\ Strip(arg.query) # <<>>
    /\ ret.v.state.ids # {}
    /\ arg.view_min > 0

\* C7 as claimed: both count formatters return their sentinel for None and
\* for every input that is no integer literal, and a number otherwise.
C7_SentinelForAbsentOrUnparseable ==
    (fn \in {"format_views", "format_compact_korean"} /\ ret.done)
        => LET sentinel == IF fn = "format_views" THEN NoViewsText ELSE "-"
               literal == PyIntOf(arg).ok
           IN  (ret.v = sentinel) <=> ~literal

\* an object of an item as the claim takes it: missing, null, or an object
\* whose fields are missing, null or of the documented type
PartReadable(d, k, fields) ==
    /\ FieldIs(d, k, {"dict"})
    /\ IsDict(DictGetNone(d, k))
          => \A f \in fields : FieldIs(DictGetNone(d, k), f, {"str", "iso", "badiso"})

\* a raw item every part of which is missing, null or as the API documents
DisplayReadable(v) ==
    /\ IsDict(v)
    /\ FieldIs(v, "id", {"str"})
    /\ PartReadable(v, "snippet", {"title", "channelTitle", "publishedAt"})
    /\ PartReadable(v, "statistics", {"viewCount", "likeCount", "commentCount"})
    /\ PartReadable(v, "contentDetails", {"duration"})
    /\ LET sn == PyOr(DictGetNone(v, "snippet"), EmptyDict)
       IN  /\ FieldIs(sn, "thumbnails", {"dict"})
           /\ IsDict(DictGetNone(sn, "thumbnails"))
                 => \A size \in {"medium", "high", "standard", "default"} :
                       PartReadable(DictGetNone(sn, "thumbnails"), size, {"url"})

\* the first variant of medium, high, standard, default that is there
FirstVariant(thumbs) ==
    IF Truthy(DictGetNone(thumbs, "medium")) THEN DictGetNone(thumbs, "medium")
    ELSE IF Truthy(DictGetNone(thumbs, "high")) THEN DictGetNone(thumbs, "high")
    ELSE IF Truthy(DictGetNone(thumbs, "standard")) THEN DictGetNone(thumbs, "standard")
    ELSE IF Truthy(DictGetNone(thumbs, "default")) THEN DictGetNone(thumbs, "default")
    ELSE EmptyDict

\* C8 as claimed: the display step of an item completes whatever part of the
\* item is missing or null, with the thumbnail of the first variant there is,
\* or none.
C8_DisplayNeverFails ==
    (fn = "display" /\ ret.done /\ DisplayReadable(arg.v))
        => /\ ret.v.ok
           /\ LET sn == PyOr(DictGetNone(arg.v, "snippet"), EmptyDict)
                  thumbs == PyOr(DictGetNone(sn, "thumbnails"), EmptyDict)
              IN  ret.v.thumb = DictGetNone(FirstVariant(thumbs), "url")

\* the labels the user selected in the multiselect
SelectedNames(a) == {OptionsOf(a.items, a.cats)[i] : i \in a.pick}

\* C9 as claimed: with labels selected, the category criterion admits exactly
\* the items whose own category label is among them.
C9_SelectedLabelsRoundTrip ==
    (fn = "filter" /\ ret.done /\ FilterInputReadable(arg) /\ arg.pick # {})
        => /\ ~ret.v.raised
           /\ \A i \in 1..Len(arg.items.l) :
                 LET cid == RawCategoryId(arg.items.l[i])
                 IN  CategoryCriterion(arg.items.l[i], ret.v.state)
                       <=> /\ Truthy(cid)
                           /\ CategoryLabel(arg.cats, cid) \in SelectedNames(arg)

\* C10 as claimed: a timestamp less than 60 s old, or in the future, is
\* "just now", and every other label carries a count of at least 1.
C10_CountIsNeverZero ==
    (fn = "format_relative_time_korean" /\ ret.done /\ arg.iso_time.t = "iso")
        => IF arg.clock - arg.iso_time.e < 60
              THEN ret.v.label = RelLabel("banggeum jeon", -1)
           ELSE ret.v.label.n >= 1

====
